---- MODULE Spec2Model ----
(***************************************************************************)
(* QR_Analyzer.py: the batch worker MatrixProcessorThread, the             *)
(* AutomatedAnalyzer widget that starts it and consumes its signals, and   *)
(* the ManualAnalyzer widget with its rubber-band selection.               *)
(*                                                                         *)
(* The worker runs in its own thread; its three signals (progress,         *)
(* log_message, finished) are delivered to the widget's slots through the  *)
(* GUI thread's event queue, in the order they were emitted.  User actions *)
(* (Load Folder, Select Output Directory, the Process button) interleave   *)
(* freely with the worker's steps and with the slots; the value of the     *)
(* scale spin box is an input read when a job is started.                  *)
(*                                                                         *)
(* The manual tab has its own specifications: SpecManual (folder loads,    *)
(* list clicks and gestures on a few pointer positions) and SpecDrag       *)
(* (gestures over one image with the pointer anywhere).  SpecSanitize and  *)
(* SpecCrop run the worker's step for one symbol on many payloads and many *)
(* bounding rects.                                                         *)
(*                                                                         *)
(* Definitions introduced as a variant of another one (NewListInPlace,     *)
(* NextIndexNewest, ContinueAsBreak, HasNextOffByOne, PercentNearest,      *)
(* SanitizeDropping, ShowFirstPixmap, KeepSelection,                       *)
(* CropExtentUnclamped) are plausible faults of the code,                  *)
(* kept to show that the properties depend on the definition that follows  *)
(* each of them.                                                           *)
(***************************************************************************)
EXTENDS Integers, Sequences, FiniteSets, TLC

\* ------------------------------------------------------------------ bounds
MaxImages == 2      \* image files in the largest folder the user can pick
MaxSymbols == 2     \* symbols pylibdmtx.decode returns for one image, at most
MaxJobs == 1        \* batch jobs started in one behaviour
MaxLoads == 2       \* folders loaded in one behaviour (each allocates a list)
MaxTotal == 50      \* images of the largest batch whose percentages are checked
Grid == 2           \* scene coordinates are multiples of 1/Grid pixel
MaxDrag == 2        \* how far past the image border a drag goes, in 1/Grid pixel
MaxClock == 1       \* seconds that pass in one behaviour
MaxLen == 3         \* bytes of the longest payload whose file name is checked
MaxSide == 24       \* width and height of the image whose symbols are cut out

\* ------------------------------------------------------- values and inputs
None == "None"              \* Python's None
NoThread == 0               \* self.processor = None
Unbound == 0                \* a local variable that was never assigned

\* A file is [dir, stem, ext]: stem k stands for the name "img<k>", stem 0
\* for a file that is no image; as a base name, 0 is never a file's.
ImageExts == {".png", ".jpg", ".jpeg", ".bmp"}
ImageFile(dir, k, ext) == [dir |-> dir, stem |-> k, ext |-> ext]
NoArg == [dir |-> "", stem |-> 0, ext |-> ""]       \* no file

\* os.listdir(folder): folder "A" holds MaxImages images and a text file,
\* folder "B" holds one image, folder "E" holds no image.
ListDir(folder) ==
    IF folder = "A"
      THEN [k \in 1..MaxImages |-> ImageFile("A", k, ".png")]
           \o <<ImageFile("A", MaxImages + 1, ".txt")>>
    ELSE IF folder = "B"
      THEN <<ImageFile("B", 1, ".jpg")>>
    ELSE <<ImageFile("E", 1, ".md")>>

FolderChoices == {"", "A", "B", "E"}     \* "" : the dialog was cancelled
OutDirChoices == {"", "out1"}            \* "" : the dialog was cancelled
ScaleChoices == {25, 100}                \* scale_spinbox.value(), in 25..100

\* abs, min and max of Python, on integers
Abs(n) == IF n < 0 THEN -n ELSE n
Min(a, b) == IF a <= b THEN a ELSE b
Max(a, b) == IF a >= b THEN a ELSE b

\* the indices a[lo:hi] selects on an axis of length n (numpy slicing)
SliceBound(b, n) == IF b < 0 THEN Max(b + n, 0) ELSE Min(b, n)
Slice(lo, hi, n) ==
    {k \in 0..(n - 1) : SliceBound(lo, n) <= k /\ k < SliceBound(hi, n)}

\* bool(x) of a list reference's content / of a directory string
Truthy(d) == d # None /\ d # ""

\* os.path.splitext(os.path.basename(image_path))[0]
BaseName(path) == path.stem

\* scale_factor / 100.0, kept as a fraction; the test scale_factor != 1.0
ScaleFactor(v) == <<v, 100>>
IsOne(sf) == sf[1] = sf[2]

RECURSIVE FilterImages(_)
\* the loop of load_images: keep the entries whose extension is an image's
FilterImages(entries) ==
    IF entries = <<>> THEN <<>>
    ELSE IF Head(entries).ext \in ImageExts
      THEN <<Head(entries)>> \o FilterImages(Tail(entries))
      ELSE FilterImages(Tail(entries))

\* ------------------------------------------- double-precision arithmetic
\* A positive double is [hi, mid, lo, e]: its 53-bit significand is
\* hi * Limb^2 + mid * Limb + lo, in [2^52, 2^53), and its value is the
\* significand times 2^(e - 52).
Limb == 1048576             \* 2^20
HiOne == 4096               \* 2^12: hi of the significand 2^52

RECURSIVE LeadingZeros(_, _)
\* zero bits after the binary point of r/d before its first one bit, r < d
LeadingZeros(r, d) == IF 2 * r >= d THEN 0 ELSE 1 + LeadingZeros(2 * r, d)

RECURSIVE BitLen(_)
\* number of bits of a natural number
BitLen(n) == IF n = 0 THEN 0 ELSE 1 + BitLen(n \div 2)

\* the significand plus one unit in the last place, renormalised
NextUp(x) ==
    LET lo  == x.lo + 1
        mid == x.mid + (lo \div Limb)
        hi  == x.hi + (mid \div Limb)
    IN  IF hi = 2 * HiOne
          THEN [hi |-> HiOne, mid |-> 0, lo |-> 0, e |-> x.e + 1]
          ELSE [hi |-> hi, mid |-> mid % Limb, lo |-> lo % Limb, e |-> x.e]

\* round to nearest, ties to even: x is the truncated result, rem what was
\* cut off, and half the value of half a unit in the last place
RoundNearestEven(x, rem, half) ==
    IF rem > half \/ (rem = half /\ x.lo % 2 = 1) THEN NextUp(x) ELSE x

\* float(k) / float(d) for integers 1 <= k <= d
FloatDiv(k, d) ==
    IF k = d THEN [hi |-> HiOne, mid |-> 0, lo |-> 0, e |-> 0]
    ELSE LET z   == LeadingZeros(k, d)
             n2  == k * 2^(13 + z)
             n1  == (n2 % d) * Limb
             n0  == (n1 % d) * Limb
         IN  RoundNearestEven([hi |-> n2 \div d, mid |-> n1 \div d,
                               lo |-> n0 \div d, e |-> -(z + 1)],
                              2 * (n0 % d), d)

\* x * float(c) for a double x and an integer 2 <= c < 2^7
FloatMul(x, c) ==
    LET p0 == x.lo * c
        p1 == x.mid * c + (p0 \div Limb)
        p2 == x.hi * c + (p1 \div Limb)
        s  == BitLen(p2) - 13           \* bits beyond the 53rd
        up == 2^(20 - s)
    IN  RoundNearestEven([hi  |-> p2 \div 2^s,
                          mid |-> ((p1 % Limb) \div 2^s) + (p2 % 2^s) * up,
                          lo  |-> ((p0 % Limb) \div 2^s) + (p1 % 2^s) * up,
                          e   |-> x.e + s],
                         2 * (p0 % 2^s), 2^s)

\* int(x): truncation toward zero, for x < 2^13
FloatToInt(x) == IF x.e < 0 THEN 0 ELSE x.hi \div 2^(12 - x.e)

\* int((i + 1) / total_images * 100) with k = i + 1
\* (variant: the nearest integer, halves up)
PercentNearest(k, total) == (200 * k + total) \div (2 * total)
Percent(k, total) == FloatToInt(FloatMul(FloatDiv(k, total), 100))

\* ------------------------------------------------------------------ state
VARIABLES
    heap,          \* Python list objects: reference -> sequence of image paths
    images,        \* AutomatedAnalyzer.images: a reference into heap
    output_dir,    \* AutomatedAnalyzer.output_dir
    process_button,\* whether the Process button is enabled
    progress_bar,  \* value of the progress bar
    log_viewer,    \* lines of the log pane
    processor,     \* AutomatedAnalyzer.processor: NoThread or the job's number
    threads,       \* the MatrixProcessorThread objects, in order of creation
    queue,         \* signals emitted by workers, not yet delivered to a slot
    dirs,          \* output subdirectories created by os.makedirs
    aborted,       \* the interpreter was terminated by an unhandled exception
    emitted,       \* history: per job, the signals its run emitted, in order
    handled,       \* history: per job, the signals the slots received
    loaded,        \* history: per job, the paths passed to cv2.imread
    snapshot,      \* history: per job, the list and output root at its start
    now,           \* the wall clock when it was last read, in seconds
    files,         \* the files cv2.imwrite has written
    symbols,       \* history: what became of each symbol a run took up
    manual,        \* the fields of the ManualAnalyzer widget
    drawn_over,    \* history: the pixmap under the last rectangle drawn
    cropped        \* the region the last handler cut out, if it was detect_matrix

vars == <<heap, images, output_dir, process_button,
          progress_bar, log_viewer, processor, threads, queue, dirs, aborted,
          emitted, handled, loaded, snapshot, now, files, symbols,
          manual, drawn_over, cropped>>

manualVars == <<manual, drawn_over, cropped>>
otherVars == <<now, files, symbols, manualVars>>

uiVars == <<heap, images, output_dir, process_button,
            progress_bar, log_viewer, processor>>
histVars == <<emitted, handled, loaded, snapshot>>
batchVars == <<uiVars, threads, queue, dirs, aborted, histVars,
               now, files, symbols>>

Jobs == 1..Len(threads)

\* an attribute that is None, or refers to an object
Nil == <<>>
Some(v) == <<v>>

\* ManualAnalyzer.setup_ui
NewManualAnalyzer ==
    [images |-> <<>>, image_path |-> NoArg, cv_image |-> Nil,
     current_pixmap |-> Nil, image_pixmap_item |-> Nil,
     selected_area |-> Nil, start_pos |-> Nil, end_pos |-> Nil,
     drawing |-> FALSE, detect_matrix_button |-> FALSE,
     matrix_label |-> "Data Matrix Content:"]

\* nothing written, nothing displayed, nothing cut out yet
InitOther ==
    /\ now = 0
    /\ files = {}
    /\ symbols = <<>>
    /\ manual = NewManualAnalyzer
    /\ drawn_over = Nil
    /\ cropped = Nil

\* AutomatedAnalyzer.__init__ / setup_ui, ManualAnalyzer.__init__ / setup_ui
Init ==
    /\ heap = <<<<>>>>
    /\ images = 1
    /\ output_dir = None
    /\ process_button = FALSE
    /\ progress_bar = 0
    /\ log_viewer = <<>>
    /\ processor = NoThread
    /\ threads = <<>>
    /\ queue = <<>>
    /\ dirs = {}
    /\ aborted = FALSE
    /\ emitted = <<>>
    /\ handled = <<>>
    /\ loaded = <<>>
    /\ snapshot = <<>>
    /\ InitOther

\* ------------------------------------------------------- the three signals
\* A log line: its fixed text, the path or base name formatted into it, and
\* the decoded payload (for "Saved matrix" lines), a sequence of characters.
NameArg(base_name) == [dir |-> "", stem |-> base_name, ext |-> ""]
Msg(text, arg, data) == [text |-> text, arg |-> arg, data |-> data]
NoMsg == Msg("", NoArg, <<>>)

\* i is the index of the image the worker was handling when it emitted
LogEvent(j, i, msg) ==
    [job |-> j, kind |-> "log", i |-> i, value |-> 0, msg |-> msg]
ProgressEvent(j, i, v) ==
    [job |-> j, kind |-> "progress", i |-> i, value |-> v, msg |-> NoMsg]
FinishedEvent(j, i) ==
    [job |-> j, kind |-> "finished", i |-> i, value |-> 0, msg |-> NoMsg]

\* signal.emit(...) from the worker thread: a queued connection posts the
\* call to the GUI thread's event queue
Emit(ev) ==
    /\ queue' = Append(queue, ev)
    /\ emitted' = [emitted EXCEPT ![ev.job] = Append(@, ev)]

NoEmit == UNCHANGED <<queue, emitted>>

\* --------------------------------------------- AutomatedAnalyzer (GUI side)
\* update_process_button
ButtonState(imgs, dir) == imgs # <<>> /\ Truthy(dir)

\* self.images = [] followed by the appends: a new list object, which
\* self.images then refers to; the old object is left as it was
\* (variant: the existing list object cleared and refilled)
NewListInPlace(h, content) == [h EXCEPT ![Len(h)] = content]
NewList(h, content) == Append(h, content)

\* load_images
load_images ==
    /\ ~aborted
    /\ \E folder_path \in FolderChoices :
         IF Truthy(folder_path)
           THEN /\ Len(heap) <= MaxLoads
                /\ heap' = NewList(heap, FilterImages(ListDir(folder_path)))
                /\ images' = Len(heap')
                /\ process_button' = ButtonState(heap'[images'], output_dir)
                /\ UNCHANGED <<output_dir, progress_bar,
                               log_viewer, processor>>
           ELSE UNCHANGED uiVars
    /\ UNCHANGED <<threads, queue, dirs, aborted, histVars,
                   otherVars>>

\* select_output_dir
select_output_dir ==
    /\ ~aborted
    /\ \E d \in OutDirChoices :
         /\ output_dir' = d
         /\ process_button' = ButtonState(heap[images], d)
    /\ UNCHANGED <<heap, images, progress_bar, log_viewer,
                   processor, threads, queue, dirs, aborted, histVars,
                   otherVars>>

\* MatrixProcessorThread.__init__
NewThread(imgs, dir, scale) ==
    [images |-> imgs, output_dir |-> dir, scale_factor |-> ScaleFactor(scale),
     pc |-> "start", total_images |-> 0, it |-> 0, i |-> -1,
     image_path |-> NoArg, base_name |-> Unbound,
     shape |-> [w |-> 0, h |-> 0], decoded |-> <<>>, j |-> 0]

\* process_images: a click on the (enabled) Process button
process_images ==
    /\ ~aborted
    /\ process_button
    /\ IF heap[images] = <<>> \/ ~Truthy(output_dir)
         THEN UNCHANGED <<uiVars, threads, histVars>>
         ELSE /\ Len(threads) < MaxJobs
              /\ process_button' = FALSE
              /\ progress_bar' = 0
              /\ log_viewer' = <<Msg("Starting image processing...", NoArg, <<>>)>>
              /\ \E scale \in ScaleChoices :
                   threads' = Append(threads,
                                     NewThread(images, output_dir, scale))
              /\ processor' = Len(threads')
              /\ emitted' = Append(emitted, <<>>)
              /\ handled' = Append(handled, <<>>)
              /\ loaded' = Append(loaded, <<>>)
              /\ snapshot' = Append(snapshot, [images |-> heap[images],
                                               output_dir |-> output_dir])
              /\ UNCHANGED <<heap, images, output_dir>>
    /\ UNCHANGED <<queue, dirs, aborted,
                   otherVars>>

\* the GUI thread's event loop delivers queued calls oldest first
\* (variant: newest first)
NextIndexNewest(q) == Len(q)
NextIndex(q) == 1
NextEvent(q) == q[NextIndex(q)]
Rest(q) == SubSeq(q, 1, NextIndex(q) - 1) \o SubSeq(q, NextIndex(q) + 1, Len(q))

Deliver(kind) ==
    /\ ~aborted
    /\ queue # <<>>
    /\ NextEvent(queue).kind = kind
    /\ queue' = Rest(queue)
    /\ handled' = [handled EXCEPT ![NextEvent(queue).job] =
                                        Append(@, NextEvent(queue))]

\* update_progress
update_progress ==
    /\ Deliver("progress")
    /\ progress_bar' = NextEvent(queue).value
    /\ UNCHANGED <<heap, images, output_dir, process_button,
                   log_viewer, processor, threads, dirs, aborted, emitted,
                   loaded, snapshot,
                   otherVars>>

\* append_log
append_log ==
    /\ Deliver("log")
    /\ log_viewer' = Append(log_viewer, NextEvent(queue).msg)
    /\ UNCHANGED <<heap, images, output_dir, process_button,
                   progress_bar, processor, threads, dirs, aborted, emitted,
                   loaded, snapshot,
                   otherVars>>

\* process_complete
process_complete ==
    /\ Deliver("finished")
    /\ progress_bar' = 100
    /\ log_viewer' = Append(log_viewer, Msg("Processing complete!", NoArg, <<>>))
    /\ process_button' = TRUE
    /\ processor' = NoThread
    /\ UNCHANGED <<heap, images, output_dir, threads, dirs,
                   aborted, emitted, loaded, snapshot,
                   otherVars>>

\* ------------------------------------------------ MatrixProcessorThread.run
\* A symbol pylibdmtx.decode returns is [data, rect]: data a sequence of
\* bytes, rect = [left, top, width, height] in pixels of the scaled image.
\* A byte is written as a string: an ASCII byte as its character, and "C3",
\* "A9" for the two bytes of the letter e-acute.
AsciiBytes == {"a", "H", "e", "l", "o", "W", "r", "d", "A", "1",
               "-", "_", ",", " ", "!"}

RECURSIVE Utf8Decode(_)
\* line 66: data.decode('utf-8'), the text or a UnicodeDecodeError
Utf8Decode(bytes) ==
    IF bytes = <<>> THEN [ok |-> TRUE, text |-> <<>>]
    ELSE IF Head(bytes) \in AsciiBytes
      THEN LET rest == Utf8Decode(Tail(bytes))
           IN  [ok |-> rest.ok, text |-> <<Head(bytes)>> \o rest.text]
    ELSE IF Len(bytes) >= 2 /\ bytes[1] = "C3" /\ bytes[2] = "A9"
      THEN LET rest == Utf8Decode(Tail(Tail(bytes)))
           IN  [ok |-> rest.ok, text |-> <<"e-acute">> \o rest.text]
    ELSE [ok |-> FALSE, text |-> <<>>]

\* line 78: c.isalnum() of a character: a letter or digit, of any script
IsAlnum(c) ==
    c \in {"a", "H", "e", "l", "o", "W", "r", "d", "A", "e-acute", "1"}

\* line 78: safe_name, character for character
\* (variant: characters that are not alphanumeric are dropped)
SanitizeDropping(text) == SelectSeq(text, IsAlnum)
Sanitize(text) ==
    [k \in 1..Len(text) |-> IF IsAlnum(text[k]) THEN text[k] ELSE "_"]

\* line 79: strftime("%H%M%S") of the clock: the second of the day
SecondsPerDay == 86400
TimeStamp(t) == t % SecondsPerDay

\* lines 54, 80-81: os.path.join(output_dir, base_name,
\* f"{safe_name}_{timestamp}.png"); the stamp is the six digits after the
\* last '_', so the name determines safe_name and timestamp
OutPath(dir, base_name, safe_name, timestamp) ==
    [root |-> dir, sub |-> base_name, stem |-> safe_name, ts |-> timestamp]

\* lines 70-77: the padded region of a symbol's rect in an image of the
\* given shape; img[y:y+h, x:x+w] selects rows and cols
pad == 10
PaddedCrop(shape, rect) ==
    LET x == Max(0, rect.left - pad)
        y == Max(0, rect.top - pad)
        w == Min(shape.w - x, rect.width + 2 * pad)
        h == Min(shape.h - y, rect.height + 2 * pad)
    IN  [x |-> x, y |-> y, w |-> w, h |-> h,
         cols |-> Slice(x, x + w, shape.w),
         rows |-> Slice(y, y + h, shape.h)]

\* the content of the images of a batch: the shape of the scaled image and
\* the symbol found in it (any number of times), 3 pixels from the left edge
SceneShape == [w |-> 40, h |-> 30]
SceneRect == [left |-> 3, top |-> 12, width |-> 8, height |-> 8]
SymbolChoices == {[data |-> <<"A", "-", "1">>, rect |-> SceneRect]}

\* the thread's fields and locals after a step
Goto(t, pc) == [t EXCEPT !.pc = pc]

\* line 43: continue (variant: break)
ContinueAsBreak(t) == Goto(t, "finish")
Continue(t) == Goto(t, "loop")

\* line 37: whether the list iterator has another element
\* (variant: the loop stops one element early)
HasNextOffByOne(it, lst) == it + 1 < Len(lst)
HasNext(it, lst) == it < Len(lst)

\* line 36: total_images = len(self.images)
Run(j) ==
    /\ ~aborted
    /\ threads[j].pc = "start"
    /\ threads' = [threads EXCEPT ![j] =
           [@ EXCEPT !.total_images = Len(heap[threads[j].images]),
                     !.pc = "loop"]]
    /\ NoEmit
    /\ UNCHANGED <<uiVars, dirs, aborted, handled, loaded, snapshot,
                   otherVars>>

\* line 37: the next (i, image_path) of enumerate(self.images), or the end
LoopHead(j) ==
    LET t   == threads[j]
        lst == heap[t.images]
    IN  /\ ~aborted
        /\ t.pc = "loop"
        /\ threads' = [threads EXCEPT ![j] =
               IF HasNext(t.it, lst)
                 THEN [t EXCEPT !.i = t.it, !.image_path = lst[t.it + 1],
                                !.it = t.it + 1, !.pc = "imread"]
                 ELSE Goto(t, "finish")]
        /\ NoEmit
        /\ UNCHANGED <<uiVars, dirs, aborted, handled, loaded, snapshot,
                   otherVars>>

\* lines 40-43: cv2.imread returns an image, returns None, or raises
LoadImage(j) ==
    LET t == threads[j]
    IN  /\ ~aborted
        /\ t.pc = "imread"
        /\ loaded' = [loaded EXCEPT ![j] = Append(@, t.image_path)]
        /\ \E r \in {"image", "None", "raise"} :
             \/ /\ r = "image"
                /\ threads' = [threads EXCEPT ![j] = Goto(t, "scale")]
                /\ NoEmit
             \/ /\ r = "None"
                /\ Emit(LogEvent(j, t.i,
                                 Msg("Error loading image", t.image_path, <<>>)))
                /\ threads' = [threads EXCEPT ![j] = Continue(t)]
             \/ /\ r = "raise"
                /\ threads' = [threads EXCEPT ![j] = Goto(t, "except")]
                /\ NoEmit
        /\ UNCHANGED <<uiVars, dirs, aborted, handled, snapshot,
                   otherVars>>

\* lines 46-50: cv2.resize, only when the scale factor is not 1.0
Scale(j) ==
    LET t == threads[j]
    IN  /\ ~aborted
        /\ t.pc = "scale"
        /\ IF IsOne(t.scale_factor)
             THEN threads' = [threads EXCEPT ![j] = Goto(t, "mkdir")]
             ELSE \E ok \in BOOLEAN :
                    threads' = [threads EXCEPT ![j] =
                                   Goto(t, IF ok THEN "mkdir" ELSE "except")]
        /\ NoEmit
        /\ UNCHANGED <<uiVars, dirs, aborted, handled, loaded, snapshot,
                   otherVars>>

\* lines 53-55: base_name, image_output_dir, os.makedirs
MakeDir(j) ==
    LET t    == threads[j]
        base == BaseName(t.image_path)
    IN  /\ ~aborted
        /\ t.pc = "mkdir"
        /\ \E ok \in BOOLEAN :
             /\ threads' = [threads EXCEPT ![j] =
                    [t EXCEPT !.base_name = base,
                              !.pc = IF ok THEN "decode" ELSE "except"]]
             /\ dirs' = IF ok
                          THEN dirs \cup {[root |-> t.output_dir, sub |-> base]}
                          ELSE dirs
        /\ NoEmit
        /\ UNCHANGED <<uiVars, aborted, handled, loaded, snapshot,
                   otherVars>>

\* lines 58-61, 89-90: preprocess_image and pylibdmtx.decode raise (n = -1)
\* or return n symbols; with none, the "No matrices found" line
Decode(j) ==
    LET t == threads[j]
    IN  /\ ~aborted
        /\ t.pc = "decode"
        /\ \E n \in -1..MaxSymbols :
             \/ /\ n = -1
                /\ threads' = [threads EXCEPT ![j] = Goto(t, "except")]
                /\ NoEmit
             \/ /\ n = 0
                /\ Emit(LogEvent(j, t.i, Msg("No matrices found",
                                             NameArg(t.base_name), <<>>)))
                /\ threads' = [threads EXCEPT ![j] = Goto(t, "progress")]
             \/ /\ n > 0
                /\ \E found \in [1..n -> SymbolChoices] :
                     threads' = [threads EXCEPT ![j] =
                         [t EXCEPT !.shape = SceneShape, !.decoded = found,
                                   !.j = 0, !.pc = "matrix"]]
                /\ NoEmit
        /\ UNCHANGED <<uiVars, dirs, aborted, handled, loaded, snapshot,
                   otherVars>>

\* lines 63-88: one symbol of the inner loop.  decode('utf-8') raises on
\* bytes that are not UTF-8; datetime.now() is the clock, which has not
\* gone back since it was last read; cv2.imwrite writes the file and
\* returns True, writes nothing and returns False, or raises (it does for
\* an empty region); its result is not looked at.
Matrix(j) ==
    LET t        == threads[j]
        matrix   == t.decoded[t.j + 1]
        data     == Utf8Decode(matrix.data)
        region   == PaddedCrop(t.shape, matrix.rect)
        out_path(time) == OutPath(t.output_dir, t.base_name,
                                  Sanitize(data.text), TimeStamp(time))
        entry(time, result) ==
            [job |-> j, i |-> t.i, j |-> t.j, of |-> Len(t.decoded),
             matrix |-> matrix,
             shape |-> t.shape, region |-> region,
             out_path |-> out_path(time), result |-> result]
        failed   == LogEvent(j, t.i, Msg("Error processing matrix",
                                         NameArg(t.base_name), <<>>))
    IN  /\ ~aborted
        /\ t.pc = "matrix"
        /\ IF ~data.ok
             THEN /\ Emit(failed)
                  /\ symbols' = Append(symbols,
                                       entry(now, "UnicodeDecodeError"))
                  /\ UNCHANGED <<now, files>>
             ELSE \E time \in now..MaxClock :
                  \E r \in {"True", "False", "cv2.error"} :
                    /\ (region.cols = {} \/ region.rows = {}) => r = "cv2.error"
                    /\ now' = time
                    /\ files' = IF r = "True" THEN files \cup {out_path(time)}
                                              ELSE files
                    /\ symbols' = Append(symbols, entry(time, r))
                    /\ Emit(IF r = "cv2.error"
                              THEN failed
                              ELSE LogEvent(j, t.i,
                                       Msg("Saved matrix",
                                           NameArg(t.base_name), data.text)))
        /\ threads' = [threads EXCEPT ![j] =
               [t EXCEPT !.j = t.j + 1,
                         !.pc = IF t.j + 1 < Len(t.decoded) THEN "matrix"
                                                            ELSE "progress"]]
        /\ UNCHANGED <<uiVars, dirs, aborted, handled, loaded, snapshot,
                       manualVars>>

\* lines 92-93: the per-image handler formats base_name into its log line;
\* with base_name never assigned the handler itself raises, the exception
\* leaves run, and PyQt either ends the thread or terminates the program
Except(j) ==
    LET t == threads[j]
    IN  /\ ~aborted
        /\ t.pc = "except"
        /\ IF t.base_name = Unbound
             THEN /\ threads' = [threads EXCEPT ![j] = Goto(t, "crashed")]
                  /\ aborted' \in BOOLEAN
                  /\ NoEmit
             ELSE /\ Emit(LogEvent(j, t.i, Msg("Error processing",
                                               NameArg(t.base_name), <<>>)))
                  /\ threads' = [threads EXCEPT ![j] = Goto(t, "progress")]
                  /\ UNCHANGED aborted
        /\ UNCHANGED <<uiVars, dirs, handled, loaded, snapshot,
                   otherVars>>

\* line 95: self.progress.emit(int((i + 1) / total_images * 100))
Progress(j) ==
    LET t == threads[j]
    IN  /\ ~aborted
        /\ t.pc = "progress"
        /\ Emit(ProgressEvent(j, t.i, Percent(t.i + 1, t.total_images)))
        /\ threads' = [threads EXCEPT ![j] = Goto(t, "loop")]
        /\ UNCHANGED <<uiVars, dirs, aborted, handled, loaded, snapshot,
                   otherVars>>

\* line 97: self.finished.emit()
Finish(j) ==
    LET t == threads[j]
    IN  /\ ~aborted
        /\ t.pc = "finish"
        /\ Emit(FinishedEvent(j, t.it))
        /\ threads' = [threads EXCEPT ![j] = Goto(t, "done")]
        /\ UNCHANGED <<uiVars, dirs, aborted, handled, loaded, snapshot,
                   otherVars>>

\* -------------------------------------------------------- specifications
Next ==
    \/ load_images
    \/ select_output_dir
    \/ process_images
    \/ update_progress
    \/ append_log
    \/ process_complete
    \/ \E j \in Jobs : Run(j)
    \/ \E j \in Jobs : LoopHead(j)
    \/ \E j \in Jobs : LoadImage(j)
    \/ \E j \in Jobs : Scale(j)
    \/ \E j \in Jobs : MakeDir(j)
    \/ \E j \in Jobs : Decode(j)
    \/ \E j \in Jobs : Matrix(j)
    \/ \E j \in Jobs : Except(j)
    \/ \E j \in Jobs : Progress(j)
    \/ \E j \in Jobs : Finish(j)

Spec == Init /\ [][Next]_vars

\* The progress computation on large batches.  The initial states are the
\* states of a job on a folder of n images, n up to MaxTotal, in which the
\* first k - 1 images were unreadable, image k held no symbol, and line 95
\* is next; the step is that emit.
InitPercent ==
    \E n \in 1..MaxTotal : \E k \in 1..n :
        LET lst == [m \in 1..n |-> ImageFile("A", m, ".png")]
            ev  == [m \in 1..(k - 1) |->
                       LogEvent(1, m - 1, Msg("Error loading image", lst[m], <<>>))]
                   \o <<LogEvent(1, k - 1, Msg("No matrices found",
                                               NameArg(BaseName(lst[k])), <<>>))>>
        IN  /\ heap = <<<<>>, lst>>
            /\ images = 2
            /\ output_dir = "out1"
            /\ process_button = FALSE
            /\ progress_bar = 0
            /\ log_viewer = <<Msg("Starting image processing...", NoArg, <<>>)>>
            /\ processor = 1
            /\ threads = <<[NewThread(2, "out1", 100) EXCEPT
                               !.pc = "progress", !.total_images = n,
                               !.it = k, !.i = k - 1, !.image_path = lst[k],
                               !.base_name = BaseName(lst[k])]>>
            /\ queue = ev
            /\ dirs = {[root |-> "out1", sub |-> BaseName(lst[k])]}
            /\ aborted = FALSE
            /\ emitted = <<ev>>
            /\ handled = <<<<>>>>
            /\ loaded = <<SubSeq(lst, 1, k)>>
            /\ snapshot = <<[images |-> lst, output_dir |-> "out1"]>>
            /\ InitOther

NextPercent == \E j \in Jobs : Progress(j)

SpecPercent == InitPercent /\ [][NextPercent]_vars

\* One symbol of a one-image batch.  The initial state is that of a job on
\* folder "B" whose image, of the given shape, was read and scanned, with
\* the given symbol found and line 63 next; the step is that symbol's.
InitSymbol(matrix, shape) ==
    LET lst == FilterImages(ListDir("B"))
    IN  /\ heap = <<<<>>, lst>>
        /\ images = 2
        /\ output_dir = "out1"
        /\ process_button = FALSE
        /\ progress_bar = 0
        /\ log_viewer = <<Msg("Starting image processing...", NoArg, <<>>)>>
        /\ processor = 1
        /\ threads = <<[NewThread(2, "out1", 100) EXCEPT
                           !.pc = "matrix", !.total_images = 1,
                           !.it = 1, !.i = 0, !.image_path = lst[1],
                           !.base_name = BaseName(lst[1]),
                           !.shape = shape, !.decoded = <<matrix>>]>>
        /\ queue = <<>>
        /\ dirs = {[root |-> "out1", sub |-> BaseName(lst[1])]}
        /\ aborted = FALSE
        /\ emitted = <<<<>>>>
        /\ handled = <<<<>>>>
        /\ loaded = <<lst>>
        /\ snapshot = <<[images |-> lst, output_dir |-> "out1"]>>
        /\ InitOther

NextSymbol == \E j \in Jobs : Matrix(j)

\* File names: the symbol's payload is any sequence of at most MaxLen of
\* the bytes below, or the bytes of "Hello, World!".
PayloadBytes == {"a", "1", "-", "_", "C3", "A9"}
Hello == <<"H", "e", "l", "l", "o", ",", " ", "W", "o", "r", "l", "d", "!">>
PayloadChoices ==
    UNION {[1..n -> PayloadBytes] : n \in 0..MaxLen} \cup {Hello}

InitSanitize ==
    \E data \in PayloadChoices :
        InitSymbol([data |-> data, rect |-> SceneRect], SceneShape)

SpecSanitize == InitSanitize /\ [][NextSymbol]_vars

\* Regions: the image is MaxSide x MaxSide; the symbol's rect lies in it,
\* with every left edge and width, and with its top edge on the border,
\* just within the padding or just beyond it.
RectChoices ==
    {[left |-> l, top |-> t, width |-> w, height |-> h] :
        l \in 0..(MaxSide - 1), w \in 1..MaxSide,
        t \in {0, pad - 1, pad + 1}, h \in {1, MaxSide - (pad + 1)}}

InitCrop ==
    \E rect \in RectChoices :
        /\ rect.left + rect.width <= MaxSide
        /\ rect.top + rect.height <= MaxSide
        /\ InitSymbol([data |-> <<"A", "-", "1">>, rect |-> rect],
                      [w |-> MaxSide, h |-> MaxSide])

SpecCrop == InitCrop /\ [][NextSymbol]_vars

\* ---------------------------------------------------------- ManualAnalyzer
\* line 169: the shape of the array cv2.imread returns for a readable file,
\* in pixels; the pixmap made of it has the same size
ImageShape(path) == [w |-> path.stem, h |-> 1]

\* the folders the user can pick in the manual tab ("" : cancelled)
ManualFolderChoices == {"", "A"}

\* mapToScene(event.pos()): a point of the scene, in 1/Grid pixel; the
\* scene's origin is the top-left corner of the displayed pixmap.
\* Horizontally the pointer takes every position from MaxDrag left of the
\* widest image to MaxDrag right of it; vertically it is on a pixel
\* boundary, from above the image down to its bottom edge.
ScenePoints ==
    [x : (-MaxDrag)..(Grid * MaxImages + MaxDrag),
     y : {c \in (-MaxDrag)..Grid : c % Grid = 0}]

\* a few pointer positions on pixel boundaries: above and left of the
\* image, on its top-left corner, on its bottom edge, and right of it
ClickPoints ==
    {pos \in ScenePoints :
        pos.x % Grid = 0 /\ pos.y = Max(-Grid, Min(pos.x, Grid))}

\* line 186: image_pixmap_item.contains(pos), the item showing pixmap pm
Contains(pm, pos) ==
    /\ 0 <= pos.x /\ pos.x <= Grid * ImageShape(pm).w
    /\ 0 <= pos.y /\ pos.y <= Grid * ImageShape(pm).h

\* line 204: bool(pos) of an attribute that is None or a QPointF; a QPointF
\* is false when it is null, that is when both coordinates are zero
PointTruthy(pos) == pos # Nil /\ ~(pos[1].x = 0 /\ pos[1].y = 0)

\* lines 209-212: the rectangle of a drag from s to e
SelectionRect(s, e) ==
    [x |-> Min(s.x, e.x), y |-> Min(s.y, e.y),
     width |-> Abs(e.x - s.x), height |-> Abs(e.y - s.y)]

\* line 204: the test of update_selection
CanSelect(m) ==
    PointTruthy(m.start_pos) /\ PointTruthy(m.end_pos) /\ m.current_pixmap # Nil

\* lines 203-215: update_selection; clearing the scene removes the pixmap
\* item and the old rectangle, a new item of the same pixmap is added
update_selection(m) ==
    IF CanSelect(m)
      THEN [m EXCEPT !.image_pixmap_item = m.current_pixmap,
                     !.selected_area =
                         Some(SelectionRect(m.start_pos[1], m.end_pos[1]))]
      ELSE m

\* the pixmap under the rectangle, when update_selection draws one
DrawnOver(m, before) == IF CanSelect(m) THEN m.current_pixmap ELSE before

\* lines 171-174: the pixmap of the image just read is put on display
\* (variant: a pixmap already on display is left there)
ShowFirstPixmap(m, path) ==
    [m EXCEPT !.cv_image = Some(path),
              !.current_pixmap = IF @ = Nil THEN Some(path) ELSE @,
              !.image_pixmap_item = IF @ = Nil THEN Some(path) ELSE @]
Show(m, path) ==
    [m EXCEPT !.cv_image = Some(path), !.current_pixmap = Some(path),
              !.image_pixmap_item = Some(path)]

\* lines 179-182: the selection state is discarded
\* (variant: it is kept)
KeepSelection(m) == m
ResetSelection(m) ==
    [m EXCEPT !.selected_area = Nil, !.start_pos = Nil, !.end_pos = Nil,
              !.drawing = FALSE]

\* lines 157-165: load_images of the manual tab
ManualAnalyzer_load_images ==
    /\ ~aborted
    /\ \E folder_path \in ManualFolderChoices :
         manual' = IF Truthy(folder_path)
                     THEN [manual EXCEPT
                              !.images = FilterImages(ListDir(folder_path))]
                     ELSE manual
    /\ cropped' = Nil
    /\ UNCHANGED <<drawn_over, batchVars>>

\* lines 167-182: a click on an item of the list; cv2.imread returns an
\* array, returns None, or raises
display_image ==
    /\ ~aborted
    /\ \E row \in 1..Len(manual.images) :
         LET path == manual.images[row]
             m    == [manual EXCEPT !.image_path = path]
         IN  \E r \in {"image", "None", "raise"} :
               \/ /\ r = "image"
                  /\ manual' = ResetSelection(
                        [Show(m, path) EXCEPT
                            !.detect_matrix_button = TRUE,
                            !.matrix_label = "Data Matrix Content:"])
               \/ /\ r = "None"
                  /\ manual' = [m EXCEPT !.cv_image = Nil]
               \/ /\ r = "raise"
                  /\ manual' = m
    /\ cropped' = Nil
    /\ UNCHANGED <<drawn_over, batchVars>>

\* lines 184-190; Points are the positions the pointer can be at
mousePressEvent(Points) ==
    /\ ~aborted
    /\ \E pos \in Points :
         IF manual.image_pixmap_item # Nil
            /\ Contains(manual.image_pixmap_item[1], pos)
           THEN LET m == [manual EXCEPT !.drawing = TRUE,
                                        !.start_pos = Some(pos),
                                        !.end_pos = Some(pos)]
                IN  /\ manual' = update_selection(m)
                    /\ drawn_over' = DrawnOver(m, drawn_over)
           ELSE UNCHANGED <<manual, drawn_over>>
    /\ cropped' = Nil
    /\ UNCHANGED batchVars

\* lines 192-195
mouseMoveEvent(Points) ==
    /\ ~aborted
    /\ \E pos \in Points :
         IF manual.drawing
           THEN LET m == [manual EXCEPT !.end_pos = Some(pos)]
                IN  /\ manual' = update_selection(m)
                    /\ drawn_over' = DrawnOver(m, drawn_over)
           ELSE UNCHANGED <<manual, drawn_over>>
    /\ cropped' = Nil
    /\ UNCHANGED batchVars

\* lines 197-201
mouseReleaseEvent(Points) ==
    /\ ~aborted
    /\ \E pos \in Points :
         IF manual.drawing
           THEN LET m == [manual EXCEPT !.drawing = FALSE,
                                        !.end_pos = Some(pos)]
                IN  /\ manual' = update_selection(m)
                    /\ drawn_over' = DrawnOver(m, drawn_over)
           ELSE UNCHANGED <<manual, drawn_over>>
    /\ cropped' = Nil
    /\ UNCHANGED batchVars

\* int(c) of a scene coordinate: truncation toward zero, in pixels
IntTrunc(c) == IF c >= 0 THEN c \div Grid ELSE -((-c) \div Grid)

\* lines 230-231: x = max(0, int(rect.x())), and y likewise
CropOrigin(c) == Max(0, IntTrunc(c))

\* lines 232-233: width = min(shape[1] - x, int(rect.width())), and height
\* (variant: the drawn extent, not limited by the image)
CropExtentUnclamped(size, origin, extent) == IntTrunc(extent)
CropExtent(size, origin, extent) == Min(size - origin, IntTrunc(extent))

\* lines 229-235: the region detect_matrix cuts out of the array img for
\* the rectangle rect
Crop(img, rect) ==
    LET shape  == ImageShape(img)
        x      == CropOrigin(rect.x)
        y      == CropOrigin(rect.y)
        width  == CropExtent(shape.w, x, rect.width)
        height == CropExtent(shape.h, y, rect.height)
    IN  [image |-> img, rect |-> rect, x |-> x, y |-> y,
         width |-> width, height |-> height,
         cols |-> Slice(x, x + width, shape.w),
         rows |-> Slice(y, y + height, shape.h)]

\* lines 226-249: a click on the (enabled) Detect Data Matrix button; an
\* empty region makes preprocess_image raise
detect_matrix ==
    /\ ~aborted
    /\ manual.detect_matrix_button
    /\ IF manual.cv_image # Nil /\ manual.selected_area # Nil
         THEN LET c == Crop(manual.cv_image[1], manual.selected_area[1])
              IN  /\ cropped' = Some([crop |-> c, over |-> drawn_over])
                  /\ \E r \in {"Data Matrix Content: <data>",
                               "No Data Matrix detected in the selected area.",
                               "Error"} :
                       /\ (c.cols = {} \/ c.rows = {}) => r = "Error"
                       /\ manual' = [manual EXCEPT !.matrix_label = r]
         ELSE /\ manual' = [manual EXCEPT !.matrix_label =
                                "Please select an image and an area."]
              /\ cropped' = Nil
    /\ UNCHANGED <<drawn_over, batchVars>>

\* the manual tab alone: the batch tab is left in its initial state
NextManual ==
    \/ ManualAnalyzer_load_images
    \/ display_image
    \/ mousePressEvent(ClickPoints)
    \/ mouseMoveEvent(ClickPoints)
    \/ mouseReleaseEvent(ClickPoints)
    \/ detect_matrix

SpecManual == Init /\ [][NextManual]_vars

\* Drags over one image, with the pointer anywhere: initially the folder
\* is loaded, one of its images is on display and nothing is selected.
InitDrag ==
    /\ heap = <<<<>>>>
    /\ images = 1
    /\ output_dir = None
    /\ process_button = FALSE
    /\ progress_bar = 0
    /\ log_viewer = <<>>
    /\ processor = NoThread
    /\ threads = <<>>
    /\ queue = <<>>
    /\ dirs = {}
    /\ aborted = FALSE
    /\ emitted = <<>>
    /\ handled = <<>>
    /\ loaded = <<>>
    /\ snapshot = <<>>
    /\ now = 0
    /\ files = {}
    /\ symbols = <<>>
    /\ \E row \in 1..MaxImages :
         LET lst == FilterImages(ListDir("A"))
         IN  manual = ResetSelection(
                 [Show([NewManualAnalyzer EXCEPT !.images = lst,
                                                 !.image_path = lst[row]],
                       lst[row])
                     EXCEPT !.detect_matrix_button = TRUE])
    /\ drawn_over = Nil
    /\ cropped = Nil

NextDrag ==
    \/ mousePressEvent(ScenePoints)
    \/ mouseMoveEvent(ScenePoints)
    \/ mouseReleaseEvent(ScenePoints)
    \/ detect_matrix

SpecDrag == InitDrag /\ [][NextDrag]_vars

\* ------------------------------------------------- helpers for properties
Positions(seq, P(_)) == {p \in 1..Len(seq) : P(seq[p])}

IsProgress(e) == e.kind = "progress"
IsLog(e) == e.kind = "log"
IsFinished(e) == e.kind = "finished"

IsPrefix(a, b) == Len(a) <= Len(b) /\ a = SubSeq(b, 1, Len(a))

\* the number of images of job j's batch
BatchSize(j) == Len(snapshot[j].images)

\* job j's run has left the loop (line 97 is next or done)
PastLastImage(j) == threads[j].pc \in {"finish", "done"}

\* the per-image procedure of image index idx (0-based) is over
ImageHandled(j, idx) ==
    \/ idx < threads[j].it - 1
    \/ idx = threads[j].it - 1 /\ threads[j].pc \in {"loop", "finish", "done"}

\* from process_images until process_complete has run for job j
Active(j) == Positions(handled[j], IsFinished) = {}

\* ------------------------------------------------------------------ C1
\* C1: the progress values a run emits never decrease, and once the run is
\* past its last image the last progress value it emitted is 100, whatever
\* the outcome of each image.
C1_ProgressReaches100 ==
    \A j \in Jobs :
        LET prog == SelectSeq(emitted[j], IsProgress)
        IN  /\ \A a, b \in 1..Len(prog) :
                   a <= b => prog[a].value <= prog[b].value
            /\ PastLastImage(j) =>
                   /\ prog # <<>>
                   /\ prog[Len(prog)].value = 100

\* ------------------------------------------------------------------ C2
\* C2: every image whose per-image procedure is over has exactly one
\* progress event, on every path; no image ever has more than one.
C2_OneProgressPerImage ==
    \A j \in Jobs :
        \A idx \in 0..(BatchSize(j) - 1) :
            LET n == Cardinality({p \in Positions(emitted[j], IsProgress) :
                                      emitted[j][p].i = idx})
            IN  /\ n <= 1
                /\ ImageHandled(j, idx) => n = 1

\* ------------------------------------------------------------------ C3
\* C3: whenever the per-image handler of a run is entered, the run's next
\* step emits one "Error processing" log line and goes on to that image's
\* progress update: the exception does not leave run.
C3_ExceptionsBecomeLogLines ==
    [][\A j \in Jobs :
          (threads[j].pc = "except" /\ threads'[j] # threads[j]) =>
              /\ threads'[j].pc = "progress"
              /\ Len(emitted'[j]) = Len(emitted[j]) + 1
              /\ emitted'[j][Len(emitted'[j])].msg.text = "Error processing"
      ]_vars

\* ------------------------------------------------------------------ C4
\* C4: while a job is active the Process button is disabled, so no second
\* job can be started.
C4_ButtonDisabledWhileActive ==
    \A j \in Jobs : Active(j) => ~process_button

\* ------------------------------------------------------------------ C5
IsLoadError(e) == IsLog(e) /\ e.msg.text = "Error loading image"

\* C5: an unreadable image gets exactly one log line, the "Error loading
\* image" line naming its path; it does not end the run (a run that is past
\* its last image has passed every image of the batch to imread and logged
\* at least one line for each), and it leaves no trace in the lines logged
\* for later images: none of them names the unreadable image.
C5_UnreadableImageSkipped ==
    \A j \in Jobs :
        \A p \in Positions(emitted[j], IsLoadError) :
            LET e == emitted[j][p]
            IN  /\ e.msg.arg = snapshot[j].images[e.i + 1]
                /\ {q \in Positions(emitted[j], IsLog) :
                        emitted[j][q].i = e.i} = {p}
                /\ threads[j].pc = "crashed" => threads[j].i > e.i
                /\ PastLastImage(j) =>
                       /\ loaded[j] = snapshot[j].images
                       /\ \A idx \in (e.i + 1)..(BatchSize(j) - 1) :
                              \E q \in Positions(emitted[j], IsLog) :
                                  emitted[j][q].i = idx
                /\ \A q \in Positions(emitted[j], IsLog) :
                       (q > p /\ ~IsLoadError(emitted[j][q])) =>
                           emitted[j][q].msg.arg.stem # BaseName(e.msg.arg)

\* an unreadable image is followed by a later image that was loaded, scanned
\* and logged, and the run has ended
C5_Witness ==
    \E j \in Jobs :
        /\ threads[j].pc = "done"
        /\ \E p \in Positions(emitted[j], IsLoadError) :
               \E q \in Positions(emitted[j], IsLog) :
                   /\ emitted[j][q].i > emitted[j][p].i
                   /\ emitted[j][q].msg.text = "Saved matrix"

\* ------------------------------------------------------------------ C6
\* C6: a run emits finished at most once, as its last event and only when
\* every image of its list has been taken and passed to imread; on the GUI
\* side process_complete runs for a job only after every progress and log
\* event of that job has been delivered.
C6_CompletionStrictlyLast ==
    \A j \in Jobs :
        /\ Cardinality(Positions(emitted[j], IsFinished)) <= 1
        /\ \A p \in Positions(emitted[j], IsFinished) :
               /\ p = Len(emitted[j])
               /\ emitted[j][p].i = BatchSize(j)
               /\ loaded[j] = snapshot[j].images
        /\ \A p \in Positions(handled[j], IsFinished) :
               /\ p = Len(handled[j])
               /\ handled[j] = emitted[j]

\* process_complete has run after progress and log events were delivered
C6_Witness ==
    \E j \in Jobs :
        /\ Positions(handled[j], IsFinished) # {}
        /\ Positions(handled[j], IsProgress) # {}
        /\ Positions(handled[j], IsLog) # {}
        /\ processor = NoThread

\* ------------------------------------------------------------------ C7
\* no job is running and no signal is pending
Quiescent ==
    /\ queue = <<>>
    /\ \A j \in Jobs : threads[j].pc \in {"done", "crashed"}

\* C7: every job completes: once no job is running and no signal is
\* pending, every job's completion has been handled, the processor
\* reference is cleared and the Process button is enabled whenever a folder
\* with images and an output directory are selected.
C7_JobsComplete ==
    (Quiescent /\ ~aborted) =>
        /\ \A j \in Jobs : ~Active(j)
        /\ processor = NoThread
        /\ ButtonState(heap[images], output_dir) => process_button

\* ------------------------------------------------------------------ C8
\* C8: in a run's event sequence every log line of image i comes after the
\* progress events of earlier images and before the progress event of
\* image i (and of later images), and the slots receive a job's events in
\* the order the run emitted them.
C8_LogsBeforeProgress ==
    \A j \in Jobs :
        /\ \A p \in Positions(emitted[j], IsLog) :
               \A q \in Positions(emitted[j], IsProgress) :
                   IF emitted[j][q].i < emitted[j][p].i THEN q < p ELSE p < q
        /\ IsPrefix(handled[j], emitted[j])
        /\ handled[j] \o SelectSeq(queue, LAMBDA e : e.job = j) = emitted[j]

\* the slots have received a log line and the progress of one image and a
\* log line of the next
C8_Witness ==
    \E j \in Jobs :
        \E p, q, r \in 1..Len(handled[j]) :
            /\ p < q /\ q < r
            /\ IsLog(handled[j][p]) /\ IsProgress(handled[j][q])
            /\ IsLog(handled[j][r])
            /\ handled[j][p].i = handled[j][q].i
            /\ handled[j][r].i > handled[j][q].i

\* ------------------------------------------------------------------ C9
\* C9 as stated: every progress value is the integer nearest to
\* 100 * (i + 1) / N.
C9_ProgressIsRounded ==
    \A j \in Jobs :
        \A p \in Positions(emitted[j], IsProgress) :
            LET e == emitted[j][p]
            IN  2 * Abs(BatchSize(j) * e.value - 100 * (e.i + 1)) <= BatchSize(j)

\* C9 amended: the progress value is the double (i + 1) / N * 100 truncated
\* toward zero: floor(100 * (i + 1) / N) whenever that quotient is not an
\* integer, the quotient or one less when it is, and 100 after the last image.
C9_ProgressIsTruncated ==
    \A j \in Jobs :
        \A p \in Positions(emitted[j], IsProgress) :
            LET e == emitted[j][p]
                k == e.i + 1
                f == (100 * k) \div BatchSize(j)
            IN  /\ e.value \in {f - 1, f}
                /\ (100 * k) % BatchSize(j) # 0 => e.value = f
                /\ k = BatchSize(j) => e.value = 100

\* a progress value was emitted that is not the nearest integer percent
C9_Witness ==
    \E j \in Jobs :
        \E p \in Positions(emitted[j], IsProgress) :
            /\ emitted[j][p].value =
                   (100 * (emitted[j][p].i + 1)) \div BatchSize(j)
            /\ emitted[j][p].value #
                   PercentNearest(emitted[j][p].i + 1, BatchSize(j))

\* ----------------------------------------------------------------- C10
\* the output subdirectories a job with this snapshot may create
OwnDirs(snap) ==
    {[root |-> snap.output_dir, sub |-> BaseName(snap.images[k])] :
         k \in 1..Len(snap.images)}

\* C10: whatever the user loads or selects while a job runs, the job's list
\* and output root stay what they were when process_images was called: the
\* paths passed to imread are that list's, in order, all of them once the
\* run is past the last image, and every directory created lies under that
\* output root.
C10_WorkerOwnsItsInputs ==
    /\ \A j \in Jobs :
           /\ heap[threads[j].images] = snapshot[j].images
           /\ threads[j].output_dir = snapshot[j].output_dir
           /\ IsPrefix(loaded[j], snapshot[j].images)
           /\ PastLastImage(j) => loaded[j] = snapshot[j].images
    /\ dirs \subseteq UNION {OwnDirs(snapshot[j]) : j \in Jobs}

\* the job is about to load its last image after the user has loaded another
\* folder and changed the output directory
C10_Witness ==
    \E j \in Jobs :
        /\ threads[j].pc = "imread"
        /\ threads[j].it = BatchSize(j)
        /\ BatchSize(j) > 1
        /\ heap[images] # snapshot[j].images
        /\ output_dir # snapshot[j].output_dir

\* ----------------------------------------------------------------- C11
\* C11: whenever detect_matrix cuts a region out of the loaded image, after
\* any sequence of loads, list clicks and gestures, its coordinates satisfy
\* 0 <= x, 0 <= y, width >= 0, height >= 0, x + width <= image width and
\* y + height <= image height.
C11_CropWithinImage ==
    cropped # Nil =>
        LET c     == cropped[1].crop
            shape == ImageShape(c.image)
        IN  /\ 0 <= c.x /\ 0 <= c.y
            /\ c.width >= 0 /\ c.height >= 0
            /\ c.x + c.width <= shape.w
            /\ c.y + c.height <= shape.h

\* a region was cut out for a rectangle that reaches past the right edge of
\* the image and starts at least a pixel inside it
C11_Witness ==
    /\ cropped # Nil
    /\ LET c == cropped[1].crop
       IN  /\ c.rect.x >= Grid
           /\ c.rect.x + c.rect.width > Grid * ImageShape(c.image).w

\* ----------------------------------------------------------------- C12
Discarded(m) ==
    /\ m.selected_area = Nil
    /\ m.start_pos = Nil
    /\ m.end_pos = Nil
    /\ ~m.drawing

\* C12: a step that loads a new image leaves selected_area, start_pos and
\* end_pos None and drawing False; and as long as no rectangle has been
\* drawn since, a step cuts nothing out of the image and changes the label
\* to nothing but the prompt (detect_matrix) or the initial text (a load).
C12_SelectionDiscardedOnLoad ==
    [][/\ (manual'.cv_image # Nil /\ manual'.cv_image # manual.cv_image) =>
              Discarded(manual')
       /\ manual.selected_area = Nil =>
              /\ cropped' = Nil
              /\ manual'.matrix_label \in
                     {manual.matrix_label, "Data Matrix Content:",
                      "Please select an image and an area."}
      ]_vars

\* a rectangle was drawn over one image, another image was loaded, and
\* detect_matrix answered with the prompt
C12_Witness ==
    /\ manual.cv_image # Nil
    /\ drawn_over # Nil
    /\ drawn_over # manual.cv_image
    /\ Discarded(manual)
    /\ manual.matrix_label = "Please select an image and an area."

\* ----------------------------------------------------------------- C13
\* the symbols whose payload was decoded, so that a file name was made
Named == {p \in 1..Len(symbols) : symbols[p].result # "UnicodeDecodeError"}

\* C13: the stem of the file name has the length of the decoded payload;
\* it has the payload's character wherever that is alphanumeric and '_'
\* everywhere else, so it holds only alphanumerics and '_'; sanitizing it
\* again changes nothing; and "Hello, World!" gives Hello__World_.
C13_StemIsSanitizedPayload ==
    \A p \in Named :
        LET text == Utf8Decode(symbols[p].matrix.data).text
            stem == symbols[p].out_path.stem
        IN  /\ Len(stem) = Len(text)
            /\ \A k \in 1..Len(text) :
                   stem[k] = IF IsAlnum(text[k]) THEN text[k] ELSE "_"
            /\ \A k \in 1..Len(stem) : IsAlnum(stem[k]) \/ stem[k] = "_"
            /\ Sanitize(stem) = stem
            /\ text = Hello =>
                   stem = <<"H", "e", "l", "l", "o", "_", "_",
                            "W", "o", "r", "l", "d", "_">>

\* a file was written for a payload holding a letter that is not ASCII
\* and a character that is not alphanumeric
C13_Witness ==
    \E p \in Named :
        LET text == Utf8Decode(symbols[p].matrix.data).text
        IN  /\ symbols[p].result = "True"
            /\ symbols[p].out_path \in files
            /\ \E a, b \in 1..Len(text) :
                   text[a] = "e-acute" /\ text[b] = "-"

\* ----------------------------------------------------------------- C14
\* the axis-aligned bounding box of two points
BoundingBox(s, e) ==
    [x |-> Min(s.x, e.x), y |-> Min(s.y, e.y),
     width |-> Max(s.x, e.x) - Min(s.x, e.x),
     height |-> Max(s.y, e.y) - Min(s.y, e.y)]

\* C14: during and after a drag from s to e the selection is the rectangle
\* update_selection computes for (s, e), which is the one it computes for
\* (e, s), and both are the bounding box of s and e, with width and height
\* not negative.
C14_SelectionIsBoundingBox ==
    (manual.start_pos # Nil /\ manual.end_pos # Nil) =>
        LET s == manual.start_pos[1]
            e == manual.end_pos[1]
        IN  /\ manual.selected_area = Some(BoundingBox(s, e))
            /\ SelectionRect(s, e) = SelectionRect(e, s)
            /\ SelectionRect(s, e) = BoundingBox(s, e)
            /\ SelectionRect(s, e).width >= 0
            /\ SelectionRect(s, e).height >= 0

\* ----------------------------------------------------------------- C15
\* the symbols for which a region was cut out and passed to cv2.imwrite
Cut == {p \in 1..Len(symbols) : symbols[p].result \in {"True", "False"}}

\* C15: the region cut out for a symbol is its rect widened by 10 pixels on
\* each side and intersected with the image: columns
\* [max(0, left - 10), min(W, left + width + 10)) and rows
\* [max(0, top - 10), min(H, top + height + 10)).
C15_RegionIsPaddedRect ==
    \A p \in Cut :
        LET r == symbols[p].matrix.rect
            W == symbols[p].shape.w
            H == symbols[p].shape.h
        IN  /\ symbols[p].region.cols =
                   {k \in 0..(W - 1) : /\ Max(0, r.left - 10) <= k
                                       /\ k < Min(W, r.left + r.width + 10)}
            /\ symbols[p].region.rows =
                   {k \in 0..(H - 1) : /\ Max(0, r.top - 10) <= k
                                       /\ k < Min(H, r.top + r.height + 10)}

\* ----------------------------------------------------------------- C16
\* pixel k of an axis lies partly / wholly within [lo, hi), in 1/Grid pixel
Touched(k, lo, hi) == k * Grid < hi /\ (k + 1) * Grid > lo
Inside(k, lo, hi) == k * Grid >= lo /\ (k + 1) * Grid <= hi

\* C16: the region detect_matrix cuts out is the intersection of the drawn
\* rectangle with the image: every pixel of the region is touched by the
\* rectangle (none lies to the right of it or below it), and every pixel of
\* the image wholly inside a rectangle drawn on pixel boundaries is in it.
C16_CropIsSelection ==
    cropped # Nil =>
        LET c     == cropped[1].crop
            r     == c.rect
            shape == ImageShape(c.image)
            whole == r.x % Grid = 0 /\ r.width % Grid = 0
                     /\ r.y % Grid = 0 /\ r.height % Grid = 0
        IN  /\ \A k \in c.cols : Touched(k, r.x, r.x + r.width)
            /\ \A k \in c.rows : Touched(k, r.y, r.y + r.height)
            /\ whole =>
                 /\ \A k \in 0..(shape.w - 1) :
                        Inside(k, r.x, r.x + r.width) => k \in c.cols
                 /\ \A k \in 0..(shape.h - 1) :
                        Inside(k, r.y, r.y + r.height) => k \in c.rows

\* ----------------------------------------------------------------- C17
IsSavedLine(e) == IsLog(e) /\ e.msg.text = "Saved matrix"

\* C17: two symbols of a run for which cv2.imwrite wrote a file were
\* written to different paths, and once an image has been handled the
\* files in its output subdirectory are as many as its "Saved matrix"
\* lines.
C17_SavedPathsDistinct ==
    /\ \A p, q \in 1..Len(symbols) :
           (/\ p < q
            /\ symbols[p].job = symbols[q].job
            /\ symbols[p].result = "True"
            /\ symbols[q].result = "True") =>
               symbols[p].out_path # symbols[q].out_path
    /\ \A j \in Jobs :
           \A idx \in 0..(BatchSize(j) - 1) :
               ImageHandled(j, idx) =>
                   Cardinality(
                       {f \in files :
                           /\ f.root = snapshot[j].output_dir
                           /\ f.sub = BaseName(snapshot[j].images[idx + 1])})
                   = Cardinality({p \in Positions(emitted[j], IsSavedLine) :
                                      emitted[j][p].i = idx})

\* ----------------------------------------------------------------- C18
\* the log lines a run emitted for the symbols of image idx, in order
SymbolLines(j, idx) ==
    SelectSeq(emitted[j],
              LAMBDA e : /\ IsLog(e)
                         /\ e.i = idx
                         /\ e.msg.text \in {"Saved matrix",
                                            "Error processing matrix"})

\* C18: a symbol whose payload could not be decoded, or whose region could
\* not be cut out or saved, has the "Error processing matrix" line as its
\* log line; the symbols after it are taken up all the same, so that an
\* image that has been handled has one line for each detected symbol; and
\* the run goes on to the images after it.
C18_SymbolFailureIsLoggedAndSkipped ==
    \A p \in 1..Len(symbols) :
        LET s     == symbols[p]
            lines == SymbolLines(s.job, s.i)
        IN  /\ Len(lines) > s.j
            /\ s.result # "True" =>
                   lines[s.j + 1].msg.text = "Error processing matrix"
            /\ ImageHandled(s.job, s.i) => Len(lines) = s.of
            /\ PastLastImage(s.job) => loaded[s.job] = snapshot[s.job].images

\* ----------------------------------------------------------------- C19
IsImageError(e) == IsLog(e) /\ e.msg.text = "Error processing"

\* C19: every "Error processing <name>" line carries the base name of the
\* image the run was handling when it emitted the line.
C19_ErrorNamesCurrentImage ==
    \A j \in Jobs :
        \A p \in Positions(emitted[j], IsImageError) :
            emitted[j][p].msg.arg.stem =
                BaseName(snapshot[j].images[emitted[j][p].i + 1])

\* ----------------------------------------------------------------- C20
\* C20: whenever an array is loaded and a rectangle is set, the rectangle
\* was drawn over the pixmap of that array, which is the pixmap on display;
\* so the region detect_matrix cuts out of an image is that of a rectangle
\* drawn over the same image.
C20_SelectionBelongsToImage ==
    /\ (manual.cv_image # Nil /\ manual.selected_area # Nil) =>
           /\ drawn_over = manual.cv_image
           /\ manual.current_pixmap = manual.cv_image
           /\ manual.image_pixmap_item = manual.cv_image
    /\ cropped # Nil => cropped[1].over = Some(cropped[1].crop.image)

\* a region was cut out of the displayed image after a click on another
\* list item whose file could not be read
C20_Witness ==
    /\ cropped # Nil
    /\ manual.image_path # cropped[1].crop.image
    /\ manual.selected_area # Nil

====
